---- MODULE Spec2Model ----
(***************************************************************************)
(* A model of furry_bomb.py: the TNB frame helper getTNBfromVector, the    *)
(* L-system emitter draw_lsystem and the placement engine                  *)
(* PhyllotaxisFlower (__init__ and geometry).                              *)
(*                                                                         *)
(* Arithmetic.  The program computes in floating point.  The model is      *)
(* exact where the program's geometry allows it:                           *)
(*  - the walk of draw_lsystem turns by multiples of 60 degrees, so the    *)
(*    heading and the cursor live on the hexagonal lattice spanned by      *)
(*    u0 = (0,1,0) and u1 = u0 turned by +60 degrees about Z; a lattice    *)
(*    vector is the pair <<a, b>> standing for a*u0 + b*u1, and a point of *)
(*    a walk is its origin plus a lattice vector;                          *)
(*  - the twist (a rotation by an arbitrary angle about an arbitrary axis) *)
(*    is kept as a term: a vertex coordinate is post + R(lin), R being     *)
(*    the rotations applied so far;                                        *)
(*  - the anchors computed by geometry are in fixed point, thousandths,    *)
(*    with cos and sin of the multiples of the golden angle tabulated;     *)
(*  - a unit vector is represented by the primitive integer vector of its  *)
(*    direction.                                                           *)
(***************************************************************************)
EXTENDS Integers, Sequences, FiniteSets, TLC

VARIABLES pc, self, i, j, p0, M0, mesh, bm, calls, loc

vars == <<pc, self, i, j, p0, M0, mesh, bm, calls, loc>>

(***************************************************************************)
(* Bounds of the model.                                                    *)
(***************************************************************************)
\* flowers, petals per flower and draw_lsystem calls of one run
MaxN == 2
MaxM == 2
MaxCalls == 4
\* length of an axiom and rounds of expansion of a call run step by step
MaxAxiomLen == 3
MaxRounds == 1
\* largest coordinate of a direction given to getTNBfromVector
MaxCoord == 2

(***************************************************************************)
(* Lattice vectors and points of a walk.                                   *)
(***************************************************************************)
LZero == <<0, 0>>

LAdd(u, v) == <<u[1] + v[1], u[2] + v[2]>>

LSub(u, v) == <<u[1] - v[1], u[2] - v[2]>>

LScale(u, c) == <<u[1] * c, u[2] * c>>

\* the vector k*o + d: o the origin the caller passed to the walk, d a lattice
\* vector in units of the step; all vectors of one call share o
Vec(o, k, d) == [o |-> o, k |-> k, d |-> d]

VAdd(u, v) == Vec(u.o, u.k + v.k, LAdd(u.d, v.d))

VSub(u, v) == Vec(u.o, u.k - v.k, LSub(u.d, v.d))

\* Vector((0, 1, 0))
Up == <<1, 0>>

\* one turn of +60 degrees about Z: u0 -> u1, u1 -> u1 - u0
Rot60(d) == <<0 - d[2], d[1] + d[2]>>

RECURSIVE Turns(_, _)
Turns(d, q) == IF q = 0 THEN d ELSE Turns(Rot60(d), q - 1)

\* faulty variant of RotateZ: a negative angle does not turn, '-' is ignored
RotateZ_NoRightTurn(d, angle) ==
    IF angle < 0 THEN d ELSE Turns(d, (angle \div 60) % 6)

\* direction.rotate(Matrix.Rotation(radians(angle), 4, 'Z')), angle a multiple of 60
RotateZ(d, angle) == Turns(d, (angle \div 60) % 6)

(***************************************************************************)
(* Vertex coordinates: post + R(lin), rot the rotations applied (none or   *)
(* one: every vertex belongs to one call).                                 *)
(***************************************************************************)
NewCo(p) == [lin |-> p, rot |-> <<>>, post |-> Vec(p.o, 0, LZero)]

\* vert.co -= position
CoSub(co, p) ==
    IF co.rot = <<>> THEN [co EXCEPT !.lin = VSub(@, p)]
    ELSE [co EXCEPT !.post = VSub(@, p)]

\* vert.co = rotation_matrix @ vert.co
CoRot(co, R) ==
    [lin |-> VAdd(co.post, co.lin), rot |-> Append(co.rot, R),
     post |-> Vec(co.lin.o, 0, LZero)]

\* vert.co += position
CoAdd(co, p) ==
    IF co.rot = <<>> THEN [co EXCEPT !.lin = VAdd(@, p)]
    ELSE [co EXCEPT !.post = VAdd(@, p)]

\* Matrix.Rotation(radians(rotation_angle), 4, position.normalized())
Rotation(rotation_angle, axis) == [angle |-> rotation_angle, axis |-> axis]

(***************************************************************************)
(* Sequencing.  {e(x) : x \in {v}} is the result of a statement e run on the *)
(* value v the statement before it left, v being evaluated once and first; *)
(* Only takes the result out of the singleton.                             *)
(***************************************************************************)
Only(S) == CHOOSE r \in S : TRUE

(***************************************************************************)
(* draw_lsystem, lines 47-52: the expansion.                               *)
(***************************************************************************)
\* faulty variant of RulesGet: rules.get(char, ""), a symbol without a rule is dropped
RulesGet_DropsUnmapped(rules, char) ==
    IF char \in DOMAIN rules THEN rules[char] ELSE <<>>

\* rules.get(char, char)
RulesGet(rules, char) ==
    IF char \in DOMAIN rules THEN rules[char] ELSE <<char>>

\* the loop over current_string[lo..hi], left to right; the range is split in
\* halves only to keep the evaluation shallow
RECURSIVE Rewrite(_, _, _, _)
Rewrite(rules, s, lo, hi) ==
    IF lo > hi THEN <<>>
    ELSE IF lo = hi THEN RulesGet(rules, s[lo])
    ELSE LET mid == (lo + hi) \div 2
         IN  Rewrite(rules, s, lo, mid) \o Rewrite(rules, s, mid + 1, hi)

\* one round of the outer loop: next_string built from current_string
ExpandRound(rules, current_string) ==
    Rewrite(rules, current_string, 1, Len(current_string))

\* lines 47-52: current_string after `iterations` rounds
RECURSIVE Expand(_, _, _)
Expand(axiom, rules, iterations) ==
    IF iterations <= 0 THEN axiom
    ELSE Only({Expand(next_string, rules, iterations - 1) :
                  next_string \in {ExpandRound(rules, axiom)}})

(***************************************************************************)
(* draw_lsystem, lines 54-65: the walk.  A walk state is the cursor, the   *)
(* heading, the call's vertex list (indices into bm.verts) and bm.verts.   *)
(***************************************************************************)
WalkInit(verts, position) ==
    [position |-> position, direction |-> Up, vert_list |-> <<>>, verts |-> verts]

\* faulty variant of WalkChar: the test for 'F' has become the final else, every symbol
\* that is no turn advances and emits
WalkChar_ElseEmits(w, char, angle, distance) ==
    IF char = "+" THEN [w EXCEPT !.direction = RotateZ(@, angle)]
    ELSE IF char = "-" THEN [w EXCEPT !.direction = RotateZ(@, 0 - angle)]
    ELSE LET next_position == VAdd(w.position, Vec(w.position.o, 0, LScale(w.direction, distance)))
         IN  [position  |-> next_position,
              direction |-> w.direction,
              vert_list |-> Append(w.vert_list, Len(w.verts) + 1),
              verts     |-> Append(w.verts, [co |-> NewCo(next_position)])]

WalkChar(w, char, angle, distance) ==
    IF char = "F" THEN
        LET next_position == VAdd(w.position, Vec(w.position.o, 0, LScale(w.direction, distance)))
        IN  [position  |-> next_position,
             direction |-> w.direction,
             vert_list |-> Append(w.vert_list, Len(w.verts) + 1),
             verts     |-> Append(w.verts, [co |-> NewCo(next_position)])]
    ELSE IF char = "+" THEN [w EXCEPT !.direction = RotateZ(@, angle)]
    ELSE IF char = "-" THEN [w EXCEPT !.direction = RotateZ(@, 0 - angle)]
    ELSE w

\* the loop over current_string[lo..hi], left to right: the first half is
\* walked, then the second half from the state the first half left (split in
\* halves as above)
RECURSIVE Walk(_, _, _, _, _, _)
Walk(w, s, lo, hi, angle, distance) ==
    IF lo > hi THEN w
    ELSE IF lo = hi THEN WalkChar(w, s[lo], angle, distance)
    ELSE LET mid == (lo + hi) \div 2
         IN  Only({Walk(left, s, mid + 1, hi, angle, distance) :
                      left \in {Walk(w, s, lo, mid, angle, distance)}})

(***************************************************************************)
(* draw_lsystem, lines 67-78: the face and the twist.                      *)
(***************************************************************************)
\* faulty variant of FacesNew: the face is added again after a first attempt
FacesNew_Twice(faces, vert_list, face_ok) ==
    IF face_ok THEN Append(Append(faces, vert_list), vert_list) ELSE faces

\* bm.faces.new(vert_list) inside try/except ValueError; face_ok is the
\* backend's verdict
FacesNew(faces, vert_list, face_ok) ==
    IF face_ok THEN Append(faces, vert_list) ELSE faces

\* the three statements of the loop body, lines 76-78
TwistCo(co, rotation_matrix, position) ==
    CoAdd(CoRot(CoSub(co, position), rotation_matrix), position)

\* the loop of lines 75-78 over vert_list
Twist(verts, vert_list, rotation_matrix, position) ==
    LET mine == {vert_list[q] : q \in 1..Len(vert_list)}
    IN  [q \in 1..Len(verts) |->
            IF q \in mine
            THEN [verts[q] EXCEPT !.co = TwistCo(@, rotation_matrix, position)]
            ELSE verts[q]]

\* faulty variant of Closes: len(vert_list) >= 2
Closes_AtLeastTwo(vert_list) == Len(vert_list) >= 2

\* if len(vert_list) > 2
Closes(vert_list) == Len(vert_list) > 2

\* faulty variant of FaceAndTwist: the twist sits in the try block after faces.new and
\* is skipped when the backend raises
FaceAndTwist_TwistInsideTry(faces, walked, rotation_angle, face_ok) ==
    IF Closes(walked.vert_list) /\ face_ok
    THEN [verts |-> Twist(walked.verts, walked.vert_list,
                          Rotation(rotation_angle, walked.position), walked.position),
          faces |-> FacesNew(faces, walked.vert_list, face_ok)]
    ELSE [verts |-> walked.verts, faces |-> faces]

\* lines 67-78 on the state the walk left
FaceAndTwist(faces, walked, rotation_angle, face_ok) ==
    IF Closes(walked.vert_list)
    THEN [verts |-> Twist(walked.verts, walked.vert_list,
                          Rotation(rotation_angle, walked.position), walked.position),
          faces |-> FacesNew(faces, walked.vert_list, face_ok)]
    ELSE [verts |-> walked.verts, faces |-> faces]

\* the whole call
draw_lsystem(b, position, axiom, rules, iterations, angle, distance, rotation_angle, face_ok) ==
    Only({Only({FaceAndTwist(b.faces, walked, rotation_angle, face_ok) :
                   walked \in {Walk(WalkInit(b.verts, position), current_string,
                                    1, Len(current_string), angle, distance)}}) :
             current_string \in {Expand(axiom, rules, iterations)}})

(***************************************************************************)
(* getTNBfromVector, lines 11-31, on integer vectors <<x, y, z>>.          *)
(***************************************************************************)
Abs(x) == IF x < 0 THEN 0 - x ELSE x

RECURSIVE Gcd(_, _)
Gcd(a, b) == IF b = 0 THEN a ELSE Gcd(b, a % b)

\* v.normalized(): the direction of v; the zero vector stays the zero vector
Normalized(v) ==
    LET g == Gcd(Gcd(Abs(v[1]), Abs(v[2])), Abs(v[3]))
    IN  IF g = 0 THEN v ELSE <<v[1] \div g, v[2] \div g, v[3] \div g>>

Cross(a, b) ==
    <<a[2] * b[3] - a[3] * b[2], a[3] * b[1] - a[1] * b[3], a[1] * b[2] - a[2] * b[1]>>

\* B.length == 0
IsZeroLength(B) == B = <<0, 0, 0>>

\* faulty variant of getTNBfromVector: the fixed frame only for the direction
\* anti-parallel to (0,0,1)
getTNBfromVector_AntiParallelOnly(v) ==
    LET N == Normalized(v)
        B == Cross(N, <<0, 0, -1>>)
    IN  IF IsZeroLength(B) /\ N[3] < 0
        THEN [T |-> <<0, 1, 0>>, N |-> N, B |-> <<1, 0, 0>>]
        ELSE [T |-> Normalized(Cross(N, Normalized(B))), N |-> N, B |-> Normalized(B)]

getTNBfromVector(v) ==
    LET N == Normalized(v)
        B == Cross(N, <<0, 0, -1>>)
    IN  IF IsZeroLength(B)
        THEN [T |-> <<0, 1, 0>>, N |-> N, B |-> <<1, 0, 0>>]
        ELSE [T |-> Normalized(Cross(N, Normalized(B))), N |-> N, B |-> Normalized(B)]

(***************************************************************************)
(* PhyllotaxisFlower.geometry, lines 115-145, in fixed point.              *)
(***************************************************************************)
\* one unit of length is Fix thousandths
Fix == 10 * 100

\* 1000 * cos(q * GOLDEN_ANGLE) and 1000 * sin(q * GOLDEN_ANGLE), q = 0, 1, ...
CosTab == <<1000, -737, 87, 608, -985, 844, -260, -461, 939, -924, 424, 299>>

SinTab == <<0, 675, -996, 794, -174, -537, 966, -887, 343, 382, -906, 954>>

Cos(q) == CosTab[q + 1]

Sin(q) == SinTab[q + 1]

\* the paraboloid of lines 116-122 and 128-135: the point at radius r (in
\* thousandths) and angle q * GOLDEN_ANGLE on the dome of height h over radius R;
\* h / (R * R) divides by zero when R = 0
Paraboloid(r, q, h, R, top) ==
    <<(r * Cos(q)) \div Fix,
      (r * Sin(q)) \div Fix,
      top - ((((((h * Fix) \div (R * R)) * r) \div Fix) * r) \div Fix)>>

\* lines 116-122: p0 of flower i0
FlowerAnchor(s, i0) ==
    LET t0 == (i0 * Fix) \div s.n
    IN  Paraboloid(t0 * s.r0, i0, s.h0, s.r0, (s.h0 * Fix) \div 2)

\* lines 128-135: p1 of petal j0 of flower i0
PetalOffset(s, i0, j0) ==
    LET t0 == (i0 * Fix) \div s.n
        t1 == (j0 * Fix) \div s.m
        t2 == 400 + (600 * t0) \div Fix
    IN  Paraboloid(((t2 * t1) \div Fix) * s.r1, j0, s.h1, s.r1, s.h1 * Fix)

\* Matrix([T0, B0, N0]).to_4x4().transposed(): the columns of M0
FrameMatrix(f) == <<f.T, f.B, f.N>>

\* p = p0 + (M0 @ p1), kept as a term
PetalAnchor(q0, Q0, q1) == [p0 |-> q0, M0 |-> Q0, p1 |-> q1]

\* angle_offset, line 143
angle_offset == 45

\* rotation_angle = degrees(atan2(p.y, p.x)) - angle_offset, kept as a term
RotationAngle(anchor) == [atan2 |-> anchor, minus |-> angle_offset]

\* the arguments of the call of line 145
Axiom == <<"F", "+", "+", "F", "+", "+", "F">>

Rules == [F |-> <<"F", "-", "F", "+", "+", "F", "-", "F">>]

Iterations == 4

Angle == 60

\* 0.05, in hundredths
Distance == 5

(***************************************************************************)
(* The state.                                                              *)
(*   pc      the position in PhyllotaxisFlower.__init__ / geometry         *)
(*   self    the fields n, m, r0, r1, r2, h0, h1 of the object             *)
(*   i, j    the loop counters of geometry                                 *)
(*   p0, M0  the locals of geometry that outlive one petal                 *)
(*   mesh    the host's mesh and object: made, committed, updated, linked  *)
(*   bm      the bmesh: its vertices and its faces (lists of vertex        *)
(*           indices)                                                      *)
(*   calls   the draw_lsystem calls made so far, one record per call       *)
(*   loc     the locals of a draw_lsystem call that is run step by step    *)
(***************************************************************************)
\* lines 87-95
Reference == [n |-> 200, m |-> 10, r0 |-> 10, r1 |-> 10, r2 |-> 1, h0 |-> 50, h1 |-> 2]

\* the configurations explored: the counts are bounded, a radius is the
\* reference's or zero
Configs ==
    {c \in [n : 0..MaxN, m : 0..MaxM, r0 : {0, Reference.r0}, r1 : {0, Reference.r1},
            r2 : {Reference.r2}, h0 : {Reference.h0}, h1 : {Reference.h1}] :
        c.n * c.m <= MaxCalls}

EmptyBm == [verts |-> <<>>, faces |-> <<>>]

NoMesh == [made |-> FALSE, to_mesh |-> 0, verts |-> 0, faces |-> 0,
           updated |-> FALSE, linked |-> FALSE]

Idle == [pc |-> "idle"]

\* the record of one draw_lsystem call: where it was made, the origin passed,
\* the vertices it added (first+1 .. first+nverts) and the fate of its face
CallRecord(at, origin, before, after) ==
    [at     |-> at,
     origin |-> origin,
     first  |-> Len(before.verts),
     nverts |-> Len(after.verts) - Len(before.verts),
     face   |-> IF Len(after.faces) > Len(before.faces) THEN "ok"
                ELSE IF Closes([q \in 1..(Len(after.verts) - Len(before.verts)) |-> q])
                     THEN "rejected" ELSE "none"]

Init ==
    /\ pc = "init"
    /\ self \in Configs
    /\ i = 0
    /\ j = 0
    /\ p0 = <<0, 0, 0>>
    /\ M0 = <<>>
    /\ mesh = NoMesh
    /\ bm = EmptyBm
    /\ calls = <<>>
    /\ loc = Idle

\* lines 97-98: bpy.data.meshes.new, bpy.data.objects.new
MeshesNew ==
    /\ pc = "init"
    /\ mesh' = [mesh EXCEPT !.made = TRUE]
    /\ pc' = "geometry"
    /\ UNCHANGED <<self, i, j, p0, M0, bm, calls, loc>>

\* line 114: bm = bmesh.new(), and the loop of line 115 starts
BmeshNew ==
    /\ pc = "geometry"
    /\ bm' = EmptyBm
    /\ i' = 0
    /\ pc' = "flower"
    /\ UNCHANGED <<self, j, p0, M0, mesh, calls, loc>>

\* lines 115-125: one flower, up to its frame
FlowerBody ==
    /\ pc = "flower"
    /\ i < self.n
    /\ self.r0 # 0
    /\ p0' = FlowerAnchor(self, i)
    /\ M0' = FrameMatrix(getTNBfromVector(p0'))
    /\ j' = 0
    /\ pc' = "petal"
    /\ UNCHANGED <<self, i, mesh, bm, calls, loc>>

\* faulty variant of FlowerDivZero: the division is guarded, a zero radius gives the
\* apex and generation goes on
FlowerDivZero_Guarded ==
    /\ pc = "flower"
    /\ i < self.n
    /\ self.r0 = 0
    /\ p0' = <<0, 0, (self.h0 * Fix) \div 2>>
    /\ M0' = FrameMatrix(getTNBfromVector(p0'))
    /\ j' = 0
    /\ pc' = "petal"
    /\ UNCHANGED <<self, i, mesh, bm, calls, loc>>

\* line 121 with r0 = 0: ZeroDivisionError, nothing catches it
FlowerDivZero ==
    /\ pc = "flower"
    /\ i < self.n
    /\ self.r0 = 0
    /\ pc' = "error"
    /\ UNCHANGED <<self, i, j, p0, M0, mesh, bm, calls, loc>>

\* lines 127-145: one petal
PetalBody ==
    /\ pc = "petal"
    /\ j < self.m
    /\ self.r1 # 0
    /\ \E face_ok \in BOOLEAN :
        LET p1 == PetalOffset(self, i, j)
            M1 == FrameMatrix(getTNBfromVector(p1))
            p  == PetalAnchor(p0, M0, p1)
        IN  \E drawn \in {draw_lsystem(bm, Vec(p, 1, LZero), Axiom, Rules, Iterations,
                                        Angle, Distance, RotationAngle(p), face_ok)} :
                /\ bm' = drawn
                /\ calls' = Append(calls, CallRecord(<<i, j>>, p, bm, drawn))
    /\ j' = j + 1
    /\ UNCHANGED <<pc, self, i, p0, M0, mesh, loc>>

\* line 134 with r1 = 0: ZeroDivisionError
PetalDivZero ==
    /\ pc = "petal"
    /\ j < self.m
    /\ self.r1 = 0
    /\ pc' = "error"
    /\ UNCHANGED <<self, i, j, p0, M0, mesh, bm, calls, loc>>

\* the loop of line 127 ends, the loop of line 115 goes on
PetalsDone ==
    /\ pc = "petal"
    /\ j >= self.m
    /\ i' = i + 1
    /\ pc' = "flower"
    /\ UNCHANGED <<self, j, p0, M0, mesh, bm, calls, loc>>

\* the loop of line 115 ends; line 147: return bm
Return ==
    /\ pc = "flower"
    /\ i >= self.n
    /\ pc' = "to_mesh"
    /\ UNCHANGED <<self, i, j, p0, M0, mesh, bm, calls, loc>>

\* line 101: bm.to_mesh(mesh)
ToMesh ==
    /\ pc = "to_mesh"
    /\ mesh' = [mesh EXCEPT !.to_mesh = @ + 1,
                            !.verts = Len(bm.verts),
                            !.faces = Len(bm.faces)]
    /\ pc' = "update"
    /\ UNCHANGED <<self, i, j, p0, M0, bm, calls, loc>>

\* lines 102-103: mesh.update(); bm.free()
UpdateAndFree ==
    /\ pc = "update"
    /\ mesh' = [mesh EXCEPT !.updated = TRUE]
    /\ bm' = EmptyBm
    /\ pc' = "link"
    /\ UNCHANGED <<self, i, j, p0, M0, calls, loc>>

\* faulty variant of Link: the object is linked as soon as geometry returns, before the
\* commit
Link_BeforeCommit ==
    /\ pc = "to_mesh"
    /\ ~mesh.linked
    /\ mesh' = [mesh EXCEPT !.linked = TRUE]
    /\ UNCHANGED <<pc, self, i, j, p0, M0, bm, calls, loc>>

\* line 105: scene.collection.objects.link(self.obj)
Link ==
    /\ pc = "link"
    /\ mesh' = [mesh EXCEPT !.linked = TRUE]
    /\ pc' = "done"
    /\ UNCHANGED <<self, i, j, p0, M0, bm, calls, loc>>

Next ==
    \/ MeshesNew
    \/ BmeshNew
    \/ FlowerBody
    \/ FlowerDivZero
    \/ PetalBody
    \/ PetalDivZero
    \/ PetalsDone
    \/ Return
    \/ ToMesh
    \/ UpdateAndFree
    \/ Link

Spec == Init /\ [][Next]_vars

(***************************************************************************)
(* One draw_lsystem call run step by step on an empty bmesh, its arguments *)
(* drawn from bounded sets.                                                *)
(***************************************************************************)
Alphabet == {"F", "+", "-", "X"}

Strings == UNION {[1..q -> Alphabet] : q \in 0..MaxAxiomLen}

NoRules == [c \in {} |-> <<>>]

GrowRules == [c \in {"X"} |-> <<"F", "X">>]

\* the grammars tried: the one of line 145 for 0..Iterations rounds at 60
\* degrees, and every short axiom under three rule sets at 60 and 120 degrees
Grammars ==
    {[axiom |-> Axiom, rules |-> Rules, iterations |-> r, angle |-> Angle] :
        r \in 0..Iterations}
    \cup
    [axiom : Strings, rules : {NoRules, Rules, GrowRules},
     iterations : 0..MaxRounds, angle : {Angle, 2 * Angle}]

\* world points a caller may pass, in thousandths
Origins == {<<0, 0, 27000>>, <<3000, 4000, 12000>>}

InitDraw ==
    /\ pc = "draw"
    /\ self = Reference
    /\ i = 0
    /\ j = 0
    /\ p0 = <<0, 0, 0>>
    /\ M0 = <<>>
    /\ mesh = NoMesh
    /\ bm = EmptyBm
    /\ calls = <<>>
    /\ \E g \in Grammars, o \in Origins, dist \in {1, Distance} :
        loc = [pc             |-> "expand",
               origin         |-> o,
               position       |-> Vec(o, 1, LZero),
               axiom          |-> g.axiom,
               rules          |-> g.rules,
               iterations     |-> g.iterations,
               angle          |-> g.angle,
               distance       |-> dist,
               rotation_angle |-> 0 - angle_offset,
               current_string |-> g.axiom,
               round          |-> 0,
               next           |-> 1,
               direction      |-> Up,
               vert_list      |-> <<>>]

\* lines 48-52: one round of the outer loop
ExpandStep ==
    /\ loc.pc = "expand"
    /\ loc.round < loc.iterations
    /\ loc' = [loc EXCEPT !.current_string = ExpandRound(loc.rules, @),
                          !.round = @ + 1]
    /\ UNCHANGED <<pc, self, i, j, p0, M0, mesh, bm, calls>>

\* lines 54-55: the walk starts
WalkStart ==
    /\ loc.pc = "expand"
    /\ loc.round >= loc.iterations
    /\ loc' = [loc EXCEPT !.pc = "walk", !.direction = Up, !.vert_list = <<>>,
                          !.next = 1]
    /\ UNCHANGED <<pc, self, i, j, p0, M0, mesh, bm, calls>>

\* lines 56-65: one symbol of current_string
WalkStep ==
    /\ loc.pc = "walk"
    /\ loc.next <= Len(loc.current_string)
    /\ LET w == WalkChar([position |-> loc.position, direction |-> loc.direction,
                          vert_list |-> loc.vert_list, verts |-> bm.verts],
                         loc.current_string[loc.next], loc.angle, loc.distance)
       IN  /\ loc' = [loc EXCEPT !.position = w.position, !.direction = w.direction,
                                 !.vert_list = w.vert_list, !.next = @ + 1]
           /\ bm' = [bm EXCEPT !.verts = w.verts]
    /\ UNCHANGED <<pc, self, i, j, p0, M0, mesh, calls>>

\* lines 67-71: more than 2 vertices, the face is attempted
FaceStep ==
    /\ loc.pc = "walk"
    /\ loc.next > Len(loc.current_string)
    /\ Closes(loc.vert_list)
    /\ \E face_ok \in BOOLEAN :
        bm' = [bm EXCEPT !.faces = FacesNew(@, loc.vert_list, face_ok)]
    /\ loc' = [loc EXCEPT !.pc = "twist"]
    /\ UNCHANGED <<pc, self, i, j, p0, M0, mesh, calls>>

\* line 67 false: the call returns
NoFace ==
    /\ loc.pc = "walk"
    /\ loc.next > Len(loc.current_string)
    /\ ~Closes(loc.vert_list)
    /\ loc' = [loc EXCEPT !.pc = "done"]
    /\ calls' = Append(calls, CallRecord(<<0, 0>>, loc.origin, EmptyBm, bm))
    /\ UNCHANGED <<pc, self, i, j, p0, M0, mesh, bm>>

\* lines 73-78: the twist, and the call returns
TwistStep ==
    /\ loc.pc = "twist"
    /\ bm' = [bm EXCEPT !.verts = Twist(@, loc.vert_list,
                            Rotation(loc.rotation_angle, loc.position), loc.position)]
    /\ loc' = [loc EXCEPT !.pc = "done"]
    /\ calls' = Append(calls, CallRecord(<<0, 0>>, loc.origin, EmptyBm, bm'))
    /\ UNCHANGED <<pc, self, i, j, p0, M0, mesh>>

NextDraw ==
    \/ ExpandStep
    \/ WalkStart
    \/ WalkStep
    \/ FaceStep
    \/ NoFace
    \/ TwistStep

SpecDraw == InitDraw /\ [][NextDraw]_vars

(***************************************************************************)
(* getTNBfromVector applied to a direction: any vector of a small cube, or *)
(* the anchor of a flower of a configuration.                              *)
(***************************************************************************)
Cube == {<<x, y, z>> : x \in (0 - MaxCoord)..MaxCoord,
                       y \in (0 - MaxCoord)..MaxCoord,
                       z \in (0 - MaxCoord)..MaxCoord}

InitFrame ==
    /\ pc = "frame"
    /\ self = Reference
    /\ i = 0
    /\ j = 0
    /\ p0 = <<0, 0, 0>>
    /\ M0 = <<>>
    /\ mesh = NoMesh
    /\ bm = EmptyBm
    /\ calls = <<>>
    /\ loc = [pc |-> "input"]

\* getTNBfromVector(v) for a vector of the cube
FrameOfVector ==
    /\ loc.pc = "input"
    /\ \E v \in Cube :
        loc' = [pc |-> "output", v |-> v, flower |-> -1, out |-> getTNBfromVector(v)]
    /\ UNCHANGED <<pc, self, i, j, p0, M0, mesh, bm, calls>>

\* lines 116-124: getTNBfromVector(p0) for flower i0 of a configuration
FrameOfFlower ==
    /\ loc.pc = "input"
    /\ \E c \in Configs :
        /\ c.r0 # 0
        /\ \E i0 \in 0..(c.n - 1) :
            /\ self' = c
            /\ i' = i0
            /\ p0' = FlowerAnchor(c, i0)
            /\ M0' = FrameMatrix(getTNBfromVector(p0'))
            /\ loc' = [pc |-> "output", v |-> p0', flower |-> i0,
                       out |-> getTNBfromVector(p0')]
    /\ UNCHANGED <<pc, j, mesh, bm, calls>>

NextFrame ==
    \/ FrameOfVector
    \/ FrameOfFlower

SpecFrame == InitFrame /\ [][NextFrame]_vars

(***************************************************************************)
(* Properties.                                                             *)
(***************************************************************************)
\* the six headings reachable from (0,1,0) by turns of 60 degrees
Headings == {Turns(Up, q) : q \in 0..5}

Dot(a, b) == a[1] * b[1] + a[2] * b[2] + a[3] * b[3]

RECURSIVE Pow(_, _)
Pow(b, e) == IF e = 0 THEN 1 ELSE b * Pow(b, e - 1)

\* the number of F among the first k symbols of s
CountF(s, k) == Cardinality({q \in 1..k : s[q] = "F"})

\* the vertices call number k added to bm.verts
VertsOf(k) == (calls[k].first + 1)..(calls[k].first + calls[k].nverts)

\* the run is past the return of geometry
Returned == pc \in {"to_mesh", "update", "link", "done"}

C2_PivotIsOrigin ==
    loc.pc = "done" =>
        \A q \in 1..Len(bm.verts) :
            bm.verts[q].co.rot # <<>> =>
                bm.verts[q].co.post = Vec(loc.origin, 1, LZero)

\* C3 as claimed: the fixed grammar has 7 symbols before the first round and
\* 3*6 + 4 = 22 after it.
C3_TwentyTwoAfterOneRound ==
    (loc.axiom = Axiom /\ loc.rules = Rules) =>
        /\ (loc.round = 0 => Len(loc.current_string) = 7)
        /\ (loc.round = 1 => Len(loc.current_string) = 3 * 6 + 4)

\* C3 amended: the fixed grammar has 7 symbols before the first round, its rule
\* replaces F by 8 symbols, and after k rounds the string has 7 * 4^k symbols of
\* which 3 * 4^k are F; after one round that is 3*8 + 4 = 28.
C3_TwentyEightAfterOneRound ==
    (loc.axiom = Axiom /\ loc.rules = Rules) =>
        /\ Len(loc.rules["F"]) = 8
        /\ Len(loc.current_string) = 7 * Pow(4, loc.round)
        /\ CountF(loc.current_string, Len(loc.current_string)) = 3 * Pow(4, loc.round)
        /\ (loc.round = 0 => loc.current_string = Axiom)
        /\ (loc.round = 1 => Len(loc.current_string) = 3 * 8 + 4)

C3_Witness ==
    /\ loc.axiom = Axiom
    /\ loc.rules = Rules
    /\ loc.round = 1
    /\ Len(loc.current_string) = 28

\* C4: the emitter invocations are, in order, the pairs (flower, petal) of the
\* double loop; the buffer never holds more faces than invocations made; a run
\* that returns from generation has made exactly n*m invocations, and the mesh it
\* commits has at most n*m faces.
C4_OneCallPerPetal ==
    /\ Len(bm.faces) <= Len(calls)
    /\ mesh.faces <= Len(calls)
    /\ Len(calls) <= self.n * self.m
    /\ \A k \in 1..Len(calls) :
          calls[k].at = <<(k - 1) \div self.m, (k - 1) % self.m>>
    /\ Returned => Len(calls) = self.n * self.m

C4_Witness ==
    /\ pc = "done"
    /\ self.n >= 2
    /\ self.m >= 2
    /\ Len(calls) = self.n * self.m
    /\ mesh.faces < Len(calls)
    /\ mesh.faces > 0

\* C5: a petal whose face the backend rejected keeps all its vertices in the
\* buffer, has no face, has its vertices twisted, and does not stop the run: the
\* run is never in the error state, is at a step of the loops or of the handoff
\* whose failing branch (a zero radius) is closed, has made all n*m invocations
\* when generation returns, and commits the vertices of all of them.
C5_RejectedFaceIsRecovered ==
    \A k \in 1..Len(calls) :
        calls[k].face = "rejected" =>
            /\ pc # "error"
            /\ pc \in {"flower", "petal", "to_mesh", "update", "link", "done"}
            /\ self.r0 # 0
            /\ self.r1 # 0
            /\ pc \in {"flower", "petal", "to_mesh", "update"} =>
                  /\ Len(bm.verts) >= calls[k].first + calls[k].nverts
                  /\ \A q \in VertsOf(k) : Len(bm.verts[q].co.rot) = 1
                  /\ \A f \in 1..Len(bm.faces) :
                        \A q \in 1..Len(bm.faces[f]) : bm.faces[f][q] \notin VertsOf(k)
            /\ Returned => Len(calls) = self.n * self.m
            /\ mesh.to_mesh = 1 =>
                  /\ mesh.verts = calls[Len(calls)].first + calls[Len(calls)].nverts
                  /\ mesh.faces = Cardinality({c \in 1..Len(calls) : calls[c].face = "ok"})

C5_Witness ==
    /\ pc = "done"
    /\ Len(calls) >= 2
    /\ calls[1].face = "rejected"
    /\ calls[2].face = "ok"
    /\ mesh.verts = calls[1].nverts + calls[2].nverts
    /\ mesh.faces = 1

\* C6: a call adds one vertex per F of the expanded string, in string order, and
\* no vertex for any other symbol; it adds a face only when it emitted more than
\* 2 vertices, and never more than one; the call with axiom "F" and no round adds
\* the single vertex origin + distance * (0,1,0), unrotated, and no face.
C6_OneVertexPerF ==
    /\ loc.pc = "walk" =>
          /\ Len(bm.verts) = CountF(loc.current_string, loc.next - 1)
          /\ loc.vert_list = [q \in 1..Len(bm.verts) |-> q]
          /\ (loc.next > 1 /\ loc.current_string[loc.next - 1] = "F") =>
                bm.verts[Len(bm.verts)].co = NewCo(loc.position)
    /\ loc.pc \in {"twist", "done"} =>
          /\ Len(bm.verts) = CountF(loc.current_string, Len(loc.current_string))
          /\ Len(bm.faces) <= 1
          /\ (Len(bm.faces) = 1 => Len(bm.verts) > 2 /\ bm.faces[1] = loc.vert_list)
    /\ (loc.pc = "done" /\ loc.axiom = <<"F">> /\ loc.iterations = 0) =>
          /\ Len(bm.verts) = 1
          /\ bm.verts[1].co = NewCo(Vec(loc.origin, 1, LScale(<<1, 0>>, loc.distance)))
          /\ bm.faces = <<>>

C6_Witness ==
    /\ loc.pc = "done"
    /\ loc.axiom = <<"F">>
    /\ loc.iterations = 0
    /\ Len(bm.verts) = 1
    /\ bm.faces = <<>>

\* C7, the order of the handoff in every state: the mesh container exists before
\* anything else happens, the geometry is committed at most once and only when
\* all n*m emitter invocations are made, the object is linked only after the
\* commit, and a run that failed has neither committed nor linked.
C7_Order ==
    /\ (pc # "init") => mesh.made
    /\ mesh.to_mesh <= 1
    /\ mesh.to_mesh = 1 <=> pc \in {"update", "link", "done"}
    /\ mesh.to_mesh = 1 => Len(calls) = self.n * self.m
    /\ mesh.linked => (mesh.to_mesh = 1 /\ mesh.updated)
    /\ pc = "done" => mesh.linked
    /\ pc = "error" => (mesh.to_mesh = 0 /\ ~mesh.linked)

\* C7, the order of the handoff in every step: an emitter invocation happens
\* only before the commit, the commit happens after the last of them, and once
\* committed no vertex or face is added, no emitter is invoked, and the commit
\* is not repeated.
C7_Step ==
    /\ calls' # calls => (mesh.made /\ mesh.to_mesh = 0 /\ mesh'.to_mesh = 0)
    /\ mesh.to_mesh = 1 =>
          /\ calls' = calls
          /\ Len(bm'.verts) <= Len(bm.verts)
          /\ Len(bm'.faces) <= Len(bm.faces)
          /\ mesh'.to_mesh = 1
          /\ mesh'.verts = mesh.verts
          /\ mesh'.faces = mesh.faces
    /\ mesh'.to_mesh # mesh.to_mesh =>
          /\ mesh'.verts = Len(bm.verts)
          /\ mesh'.faces = Len(bm.faces)
          /\ ~mesh.linked

\* C7: the handoff to the host is ordered (C7_Order in every state, C7_Step in
\* every step).
C7_HandoffOrdered == []C7_Order /\ [][C7_Step]_vars

C7_Witness ==
    /\ pc = "done"
    /\ mesh.linked
    /\ mesh.to_mesh = 1
    /\ Len(calls) >= 2
    /\ Len(calls) = self.n * self.m
    /\ mesh.verts > 0

OnZAxis(d) == d[1] = 0 /\ d[2] = 0

\* C9: for a non-zero direction d, getTNBfromVector returns N = normalize(d); it
\* returns the fixed frame B = (1,0,0), T = (0,1,0) exactly when d lies on the Z
\* axis (either sign of d.z); otherwise B = normalize(N x (0,0,-1)) and
\* T = normalize(N x B), both orthogonal to N and to each other (the products
\* with T are taken for the directions of the cube, where they stay within the
\* range of the integers). The anchor of flower 0 is (0, 0, h0/2) and gets the
\* fixed frame.
C9_FallbackIffOnZAxis ==
    (loc.pc = "output" /\ loc.v # <<0, 0, 0>>) =>
        /\ loc.out.N = Normalized(loc.v)
        /\ (loc.out.B = <<1, 0, 0>> /\ loc.out.T = <<0, 1, 0>>) <=> OnZAxis(loc.v)
        /\ ~OnZAxis(loc.v) =>
              /\ loc.out.B = Normalized(Cross(loc.out.N, <<0, 0, -1>>))
              /\ loc.out.T = Normalized(Cross(loc.out.N, loc.out.B))
              /\ loc.out.B # <<0, 0, 0>>
              /\ loc.out.T # <<0, 0, 0>>
              /\ Dot(loc.out.B, loc.out.N) = 0
              /\ loc.v \in Cube =>
                    /\ Dot(loc.out.T, loc.out.N) = 0
                    /\ Dot(loc.out.T, loc.out.B) = 0
        /\ loc.flower = 0 =>
              /\ loc.v = <<0, 0, (self.h0 * Fix) \div 2>>
              /\ OnZAxis(loc.v)
              /\ M0 = <<<<0, 1, 0>>, <<1, 0, 0>>, <<0, 0, 1>>>>

C9_Witness ==
    /\ loc.pc = "output"
    /\ loc.v = <<0, 0, 0 - MaxCoord>>
    /\ loc.out.B = <<1, 0, 0>>
    /\ loc.out.T = <<0, 1, 0>>
    /\ loc.out.N = <<0, 0, -1>>

\* the call run step by step has the arguments of line 145 up to the round count
FixedGrammar ==
    /\ loc.axiom = Axiom
    /\ loc.rules = Rules
    /\ loc.angle = Angle
    /\ loc.iterations \in 0..Iterations

\* C10: for the fixed grammar at 60 degrees and 0 to 4 rounds the heading is
\* always one of the six multiples of 60 degrees, the walk emits 3 * 4^k
\* vertices and ends with the cursor on the origin passed in, so the last vertex
\* emitted is the origin and the twist pivots on the origin.
C10_FixedGrammarWalkIsClosed ==
    FixedGrammar =>
        /\ loc.direction \in Headings
        /\ (loc.pc = "walk" /\ loc.next > Len(loc.current_string)) =>
              /\ Len(loc.vert_list) = 3 * Pow(4, loc.iterations)
              /\ loc.position = Vec(loc.origin, 1, LZero)
              /\ bm.verts[Len(bm.verts)].co = NewCo(Vec(loc.origin, 1, LZero))
        /\ loc.pc = "done" =>
              /\ Len(bm.verts) = 3 * Pow(4, loc.iterations)
              /\ \A q \in 1..Len(bm.verts) :
                    /\ bm.verts[q].co.post = Vec(loc.origin, 1, LZero)
                    /\ bm.verts[q].co.rot =
                          <<Rotation(loc.rotation_angle, Vec(loc.origin, 1, LZero))>>
              /\ bm.verts[Len(bm.verts)].co.lin = Vec(loc.origin, 0, LZero)

C10_Witness ==
    /\ loc.pc = "done"
    /\ FixedGrammar
    /\ loc.iterations = Iterations
    /\ Len(bm.verts) = 768
    /\ bm.verts[768].co.post = Vec(loc.origin, 1, LZero)

====
